---- MODULE Spec2Model ----
(***************************************************************************)
(* A reference-counted, size-classed bump arena: one ChunkList (one size   *)
(* class) with its chunks, their footers, its free list, the raw Ptr       *)
(* values handed out by ChunkList::allocate and the typed handles (Boxed,  *)
(* RefMut, Ref) built over them.                                           *)
(*                                                                         *)
(* Chunks are named by their `index` (0 .. len-1).  Option<Chunk> is an    *)
(* index or None.  The u64 `flags` word is kept as its three bit fields    *)
(* (bit 63 CURRENT, bit 62 FREE, bits 0..61 the reference count); the      *)
(* XOR toggles of the code become negations of the field.                  *)
(***************************************************************************)
EXTENDS Integers, Sequences, FiniteSets, Bags, TLC

\* ---------------------------------------------------------------- constants

\* lib.rs: MIN_BLOCK_SIZE, the chunk size of size class 0.
MIN_BLOCK_SIZE == 256

\* ------------------------------------------------------------------- bounds

\* Largest number of chunks the list may own (caps `len`).
MaxChunks == 2

\* Largest number of raw pointers, live handles and leaked handles together.
MaxHandles == 2

\* Largest n passed to ChunkList::reserve.
MaxReserve == 2

None == -1

\* The layouts (size, align) requested of the list; all have size <= the chunk
\* size and align <= the chunk size, align a power of two.
Layouts ==
    { [size |-> 100, align |-> 8],
      [size |-> 256, align |-> 256] }

VARIABLES
    size,       \* ChunkList.size, the size class
    footers,    \* index -> ChunkFooter of every chunk allocated so far
    free_list,  \* the free-list cell: Option<Chunk>, the top of the stack
    len,        \* ChunkList.len
    head,       \* ChunkList.head
    current,    \* ChunkList.current
    panic,      \* "none", or the message of the panic that ended the run
    raw,        \* the raw Ptr values no handle wraps yet, innermost last
    held,       \* the allocations that handles wrap or have leaked (a bag)
    live,       \* per chunk: handles constructed minus handles dropped
    last        \* the last operation, its arguments and its result

vars == <<size, footers, free_list, len, head, current, panic, raw, held, live, last>>

\* -------------------------------------------------------------- ChunkFooter

\* The address the host allocator returns for the chunk with this index:
\* aligned to the chunk size; every block spans data + footer (2 * size).
HostAddr(sz, index) == (3 * index + 1) * sz

ChunkFooter_new(start, sz, index, next) ==
    [ size      |-> sz,
      index     |-> index,
      start     |-> start,
      bump      |-> start + sz,
      next      |-> next,
      next_free |-> None,
      flags     |-> [current |-> FALSE, free |-> FALSE, refs |-> 0] ]

refs(f) == f.flags.refs

is_free(f) == f.flags.free

is_current(f) == f.flags.current

toggle_free(f) == [f EXCEPT !.flags.free = ~f.flags.free]

toggle_current(f) == [f EXCEPT !.flags.current = ~f.flags.current]

\* ------------------------------------------------------- the memory record
\* The operators below are the code's functions over the list and its chunks,
\* bundled as m = [size, footers, free_list, len, head, current, panic].  A panic
\* freezes m at the point of the panic.

Mem == [ size |-> size, footers |-> footers, free_list |-> free_list, len |-> len,
         head |-> head, current |-> current, panic |-> panic ]

Panic(m, msg) == [m EXCEPT !.panic = msg]

Ok(m) == m.panic = "none"

\* -------------------------------------------------------------------- Chunk

\* add_ref that loses the increment.
add_ref_lost(f) == f

\* ChunkFooter::add_ref.  Its overflow assertion needs 2^62 - 1 live handles
\* and is out of reach of any bounded run.
add_ref(f) == [f EXCEPT !.flags.refs = @ + 1]

\* ChunkFooter::remove_ref, past its underflow assertion.
remove_ref(f) == [f EXCEPT !.flags.refs = @ - 1]

\* Chunk::allocate: one host allocation holding the data region and the footer.
Chunk_allocate(m, sz, index, next) ==
    LET start == HostAddr(sz, index)
        f == ChunkFooter_new(start, sz, index, next)
    IN [m EXCEPT !.footers = [i \in (DOMAIN m.footers) \cup {index} |->
                                IF i = index THEN f ELSE m.footers[i]]]

\* calc_pointer without the rounding down to the alignment.
calc_pointer_unaligned(f, sz, align) ==
    LET sub == f.bump - sz
    IN IF sub < 0 THEN None
       ELSE IF sub = 0 THEN None
       ELSE IF sub < f.start THEN None
       ELSE sub

\* Chunk::calc_pointer: bump downwards, align down, check against start.
\* The result is the new pointer, or None.
calc_pointer(f, sz, align) ==
    LET ptr == f.bump
        sub == ptr - sz
        new_ptr == sub - (sub % align)
    IN IF sub < 0 THEN None               \* checked_sub
       ELSE IF new_ptr = 0 THEN None      \* NonNull::new
       ELSE IF new_ptr < f.start THEN None
       ELSE new_ptr

\* can_fit that refuses the allocation that would end at the chunk's start.
can_fit_above_start(f, layout) ==
    calc_pointer(f, layout.size, layout.align) \notin {None, f.start}

can_fit(f, layout) == calc_pointer(f, layout.size, layout.align) # None

\* Chunk::alloc_layout on chunk c.
alloc_layout(m, c, layout) ==
    LET ptr == calc_pointer(m.footers[c], layout.size, layout.align)
    IN IF ptr = None THEN Panic(m, "cannot allocate!")
       ELSE [m EXCEPT !.footers[c].bump = ptr]

reset_bump(m, c) ==
    [m EXCEPT !.footers[c].bump = m.footers[c].start + m.footers[c].size]

\* ----------------------------------------------------------------- FreeList

FreeList_peek(m) == m.free_list

\* can_push that looks at the reference count before the CURRENT bit.
can_push_refs_first(f) ==
    IF is_free(f) THEN [kind |-> "AlreadyFree", n |-> 0]
    ELSE IF refs(f) # 0 THEN [kind |-> "RefCount", n |-> refs(f)]
    ELSE IF is_current(f) THEN [kind |-> "IsCurrent", n |-> 0]
    ELSE [kind |-> "Ok", n |-> 0]

\* can_push that reports the reference count less one.
can_push_count_off(f) ==
    IF is_free(f) THEN [kind |-> "AlreadyFree", n |-> 0]
    ELSE IF is_current(f) THEN [kind |-> "IsCurrent", n |-> 0]
    ELSE IF refs(f) # 0 THEN [kind |-> "RefCount", n |-> refs(f) - 1]
    ELSE [kind |-> "Ok", n |-> 0]

\* FreeList::can_push: why the chunk cannot be freed, or Ok.
can_push(f) ==
    IF is_free(f) THEN [kind |-> "AlreadyFree", n |-> 0]
    ELSE IF is_current(f) THEN [kind |-> "IsCurrent", n |-> 0]
    ELSE IF refs(f) # 0 THEN [kind |-> "RefCount", n |-> refs(f)]
    ELSE [kind |-> "Ok", n |-> 0]

\* FreeList::pop that leaves the FREE bit of the popped chunk set.
FreeList_pop_keeps_free(m) ==
    LET popped == m.free_list
        taken == [m EXCEPT !.free_list = None]
    IN IF popped = None THEN [m |-> taken, popped |-> None]
       ELSE IF ~is_free(m.footers[popped])
       THEN [m |-> Panic(taken, "corrupt free list"), popped |-> popped]
       ELSE [m |-> [taken EXCEPT
                      !.free_list = m.footers[popped].next_free,
                      !.footers[popped].next_free = None],
             popped |-> popped]

\* FreeList::pop: [m, popped].
FreeList_pop(m) ==
    LET popped == m.free_list
        taken == [m EXCEPT !.free_list = None]
    IN IF popped = None THEN [m |-> taken, popped |-> None]
       ELSE IF ~is_free(m.footers[popped])
       THEN [m |-> Panic(taken, "corrupt free list"), popped |-> popped]
       ELSE LET next_free == m.footers[popped].next_free
            IN [m |-> [taken EXCEPT
                         !.free_list = next_free,
                         !.footers[popped] =
                            toggle_free([@ EXCEPT !.next_free = None])],
                popped |-> popped]

\* FreeList::push that takes the top before it asks can_push.
FreeList_push_takes_top(m, chunk) ==
    LET res == can_push(m.footers[chunk])
    IN IF res.kind # "Ok" THEN [m |-> [m EXCEPT !.free_list = None], res |-> res]
       ELSE [m |-> [m EXCEPT
                      !.footers[chunk] =
                         toggle_free([@ EXCEPT !.next_free = m.free_list]),
                      !.free_list = chunk],
             res |-> res]

\* FreeList::push: [m, res].
FreeList_push(m, chunk) ==
    LET res == can_push(m.footers[chunk])
    IN IF res.kind # "Ok" THEN [m |-> m, res |-> res]
       ELSE LET next_free == m.free_list
            IN [m |-> [m EXCEPT
                         !.footers[chunk] =
                            toggle_free([@ EXCEPT !.next_free = next_free]),
                         !.free_list = chunk],
                res |-> res]

\* Chunk::free
Chunk_free(m, c) == FreeList_push(m, c)

\* ---------------------------------------------------------------- ChunkList

\* ChunkList::empty: no chunks, a fresh free list.
empty(sz) ==
    [ size |-> sz, footers |-> <<>>, free_list |-> None, len |-> 0,
      head |-> None, current |-> None,
      panic |-> IF \E k \in 0..12 : sz = 2^k THEN "none"
                ELSE "chunk size must be a power of two" ]

\* allocate_chunk that does not advance `len`.
allocate_chunk_same_len(m) ==
    LET index == m.len
        linked(r) ==
            IF r.res.kind # "Ok" THEN Panic(r.m, "unwrap on a FreeError")
            ELSE [r.m EXCEPT !.head = index]
    IN linked(Chunk_free(Chunk_allocate(m, m.size, index, m.head), index))

\* ChunkList::allocate_chunk: a new chunk, pushed on the free list and made
\* the head of the `next` chain.
allocate_chunk(m) ==
    LET index == m.len
        linked(r) ==
            IF r.res.kind # "Ok" THEN Panic(r.m, "unwrap on a FreeError")
            ELSE [r.m EXCEPT !.head = index, !.len = index + 1]
    IN linked(Chunk_free(Chunk_allocate(m, m.size, index, m.head), index))

\* ChunkList::reserve
RECURSIVE reserve(_, _)
reserve(m, n) ==
    IF n = 0 \/ ~Ok(m) THEN m ELSE reserve(allocate_chunk(m), n - 1)

\* pop_or_alloc that asks the host for a chunk whatever the free list holds.
pop_or_alloc_always(m) ==
    LET pop(m1) ==
            IF ~Ok(m1) THEN [m |-> m1, popped |-> None] ELSE FreeList_pop(m1)
    IN pop(allocate_chunk(m))

\* ChunkList::pop_or_alloc: [m, popped].
pop_or_alloc(m) ==
    LET expect(r) ==
            IF Ok(r.m) /\ r.popped = None
            THEN [m |-> Panic(r.m, "failed to get a chunk"), popped |-> None]
            ELSE r
        pop(m1) ==
            IF ~Ok(m1) THEN [m |-> m1, popped |-> None]
            ELSE expect(FreeList_pop(m1))
    IN pop(IF FreeList_peek(m) = None THEN allocate_chunk(m) ELSE m)

\* get_current that leaves the CURRENT bit of the displaced chunk set.
get_current_keeps_bit(m, layout) ==
    LET insert(r) ==
            IF ~Ok(r.m) THEN [m |-> r.m, chunk |-> None]
            ELSE [m |-> [r.m EXCEPT !.footers[r.popped] = toggle_current(@),
                                    !.current = r.popped],
                  chunk |-> r.popped]
    IN IF m.current # None /\ can_fit(m.footers[m.current], layout)
       THEN [m |-> m, chunk |-> m.current]
       ELSE insert(pop_or_alloc(m))

\* ChunkList::get_current: [m, chunk].
get_current(m, layout) ==
    LET insert(r) ==
            IF ~Ok(r.m) THEN [m |-> r.m, chunk |-> None]
            ELSE [m |-> [r.m EXCEPT !.footers[r.popped] = toggle_current(@),
                                    !.current = r.popped],
                  chunk |-> r.popped]
    IN IF m.current # None /\ can_fit(m.footers[m.current], layout)
       THEN [m |-> m, chunk |-> m.current]
       ELSE insert(pop_or_alloc(
                IF m.current # None
                THEN [m EXCEPT !.footers[m.current] = toggle_current(@)]
                ELSE m))

\* ChunkList::allocate: [m, chunk, ptr], the Ptr<u8> being (chunk, ptr).
ChunkList_allocate(m, layout) ==
    LET ptr(c, m2) ==
            [m |-> m2, chunk |-> c,
             ptr |-> IF Ok(m2) THEN m2.footers[c].bump ELSE None]
        alloc(g) ==
            IF ~Ok(g.m) THEN [m |-> g.m, chunk |-> None, ptr |-> None]
            ELSE ptr(g.chunk, alloc_layout(g.m, g.chunk, layout))
    IN alloc(get_current(m, layout))

\* ---------------------------------------------------------------------- Ptr

\* Ptr::add_ref: [m, old].
Ptr_add_ref(m, c) ==
    [m |-> [m EXCEPT !.footers[c] = add_ref(@)], old |-> refs(m.footers[c])]

\* Ptr::remove_ref that frees the chunk without asking whether it is current.
Ptr_remove_ref_frees_current(m, c) ==
    LET old == refs(m.footers[c])
        expect(r) ==
            IF r.res.kind = "Ok" THEN r.m ELSE Panic(r.m, "failed to free chunk")
        removed(m1) ==
            IF old # 1 THEN m1 ELSE expect(Chunk_free(reset_bump(m1, c), c))
    IN [m |-> IF old = 0 THEN Panic(m, "reference counter will underflow")
              ELSE removed([m EXCEPT !.footers[c] = remove_ref(@)]),
        old |-> old]

\* Ptr::remove_ref: [m, old].  The last reference resets the bump pointer and,
\* unless the chunk is the current one, frees the chunk.
Ptr_remove_ref(m, c) ==
    LET old == refs(m.footers[c])
        expect(r) ==
            IF r.res.kind = "Ok" THEN r.m ELSE Panic(r.m, "failed to free chunk")
        unused(m2) ==
            IF is_current(m2.footers[c]) THEN m2 ELSE expect(Chunk_free(m2, c))
        removed(m1) ==
            IF old # 1 THEN m1 ELSE unused(reset_bump(m1, c))
    IN [m |-> IF old = 0 THEN Panic(m, "reference counter will underflow")
              ELSE removed([m EXCEPT !.footers[c] = remove_ref(@)]),
        old |-> old]

\* -------------------------------------------------------------- the handles
\* A raw pointer is [chunk, ptr, size]: the Ptr that ChunkList::allocate
\* returned and the size of its layout.  An allocation that handles wrap is
\* [chunk, ptr, size, kind, handles, leaked]: the kind of the handles, the
\* number of live ones (Ref is the only kind that can have more than one) and
\* the number of leaked ones; once no live handle is left and some were leaked
\* the kind is "Leaked".

Kinds == {"Boxed", "RefMut", "Ref"}

\* `last` is [op, chunk, arg, old, steps]: the operation, the chunk it acted
\* on, its argument (reserve's n, allocate's alignment), the reference count
\* that remove_ref returned and, for a drop, what the Drop impls did, in order.
NoOp == [op |-> "init", chunk |-> None, arg |-> 0, old |-> 0, steps |-> <<>>]

\* Boxed::into_ptr, RefMut::into_ptr, Ref::into_ptr: the handle goes into a
\* ManuallyDrop, so no Drop impl runs and the chunk is not touched.
into_ptr(m, c) == m

\* from_ptr that counts the pointer, as `new` does.
from_ptr_counted(m, c) == Ptr_add_ref(m, c).m

\* Boxed::from_ptr, RefMut::from_ptr, Ref::from_ptr, Boxed::from_mut: the
\* handle is built around the Ptr, the chunk is not touched.
from_ptr(m, c) == m

\* impl Drop for RefMut: [m, old, steps].
RefMut_drop(m, c) ==
    LET done(r) == [m |-> r.m, old |-> r.old, steps |-> <<"remove_ref">>]
    IN done(Ptr_remove_ref(m, c))

\* impl Drop for Ref: [m, old, steps].
Ref_drop(m, c) ==
    LET done(r) == [m |-> r.m, old |-> r.old, steps |-> <<"remove_ref">>]
    IN done(Ptr_remove_ref(m, c))

\* Drop for Boxed that destroys the value after its field was dropped.
Boxed_drop_late(m, c) ==
    LET value(d) == [d EXCEPT !.steps = @ \o <<"drop_in_place">>]
    IN value(RefMut_drop(m, c))

\* impl Drop for Boxed: drop_in_place on the value, then the drop of the
\* RefMut field: [m, old, steps].
Boxed_drop(m, c) ==
    LET field(d) == [d EXCEPT !.steps = <<"drop_in_place">> \o @]
    IN field(RefMut_drop(m, c))

\* lib.rs: index_to_chunk_size
index_to_chunk_size(index) == MIN_BLOCK_SIZE * (2 ^ index)

Allocs == BagToSet(held)

One(r) == SetToBag({r})

\* Raw pointers, live handles and leaked handles, all together.
RECURSIVE Handles(_)
Handles(S) ==
    IF S = {} THEN 0
    ELSE LET r == CHOOSE x \in S : TRUE
         IN CopiesIn(r, held) * (r.handles + r.leaked) + Handles(S \ {r})

Total == Len(raw) + Handles(Allocs)

\* The variables of the list and its chunks take the values of m.
SetMem(m) ==
    /\ size' = m.size
    /\ footers' = m.footers
    /\ free_list' = m.free_list
    /\ len' = m.len
    /\ head' = m.head
    /\ current' = m.current
    /\ panic' = m.panic

\* The handle count of every chunk of m, chunk c's changed by d.
Counted(m, c, d) ==
    [i \in DOMAIN m.footers |->
        IF i \notin DOMAIN live THEN 0
        ELSE IF i = c THEN live[i] + d ELSE live[i]]

\* The list of size class 0 right after ChunkList::empty; the chunks that
\* ChunkList::with_capacity and ChunkList::new preallocate are those that the
\* Reserve steps add.
Init ==
    LET m == empty(index_to_chunk_size(0))
    IN /\ size = m.size
       /\ footers = m.footers
       /\ free_list = m.free_list
       /\ len = m.len
       /\ head = m.head
       /\ current = m.current
       /\ panic = m.panic
       /\ raw = <<>>
       /\ held = EmptyBag
       /\ live = [i \in DOMAIN m.footers |-> 0]
       /\ last = NoOp

\* ChunkList::reserve(n)
Reserve(n) ==
    /\ panic = "none"
    /\ len + n <= MaxChunks
    /\ LET reserved(m) == SetMem(m) /\ live' = Counted(m, None, 0)
       IN reserved(reserve(Mem, n))
    /\ last' = [NoOp EXCEPT !.op = "reserve", !.arg = n]
    /\ UNCHANGED <<raw, held>>

\* ChunkList::allocate(layout), as called by Arena::allocate: the raw Ptr is
\* returned, no reference is counted yet.
Allocate(budget, layout) ==
    /\ panic = "none"
    /\ Total < budget
    /\ LET allocated(r) ==
               /\ r.m.len <= MaxChunks
               /\ SetMem(r.m)
               /\ live' = Counted(r.m, None, 0)
               /\ raw' = IF Ok(r.m)
                         THEN Append(raw, [chunk |-> r.chunk, ptr |-> r.ptr,
                                           size |-> layout.size])
                         ELSE raw
               /\ last' = [NoOp EXCEPT !.op = "allocate", !.chunk = r.chunk,
                                       !.arg = layout.align]
       IN allocated(ChunkList_allocate(Mem, layout))
    /\ UNCHANGED held

\* Boxed::new over the innermost raw pointer (Arena::alloc, alloc_layout,
\* alloc_slice_fill_with): RefMut::new, that is Ptr::add_ref.  The closure of
\* alloc_slice_fill_with runs between ChunkList::allocate and Boxed::new and
\* may use the arena, so raw pointers nest and the innermost is wrapped first.
New ==
    /\ panic = "none"
    /\ raw # <<>>
    /\ LET p == raw[Len(raw)]
           r == Ptr_add_ref(Mem, p.chunk)
       IN /\ SetMem(r.m)
          /\ live' = Counted(r.m, p.chunk, 1)
          /\ raw' = SubSeq(raw, 1, Len(raw) - 1)
          /\ held' = held (+) One([chunk |-> p.chunk, ptr |-> p.ptr,
                                   size |-> p.size, kind |-> "Boxed",
                                   handles |-> 1, leaked |-> 0])
          /\ last' = [NoOp EXCEPT !.op = "new"]

\* Ref::clone
Clone(budget, a) ==
    /\ panic = "none"
    /\ a.kind = "Ref"
    /\ a.handles >= 1
    /\ Total < budget
    /\ LET r == Ptr_add_ref(Mem, a.chunk)
       IN /\ SetMem(r.m)
          /\ live' = Counted(r.m, a.chunk, 1)
          /\ held' = (held (-) One(a)) (+) One([a EXCEPT !.handles = @ + 1])
          /\ last' = [NoOp EXCEPT !.op = "clone"]
    /\ UNCHANGED raw

\* Boxed::into_ref, RefMut::into_ref, Ref::from_box, Ref::from_mut,
\* Boxed::into_mut, RefMut::from_box, RefMut::into_box, Boxed::from_mut, and
\* init_with / assume_init (which keep the kind): the Ptr moves from one
\* handle to another through into_ptr / from_ptr.
Convert(a, to) ==
    /\ panic = "none"
    /\ a.handles = 1
    /\ \/ a.kind = "Boxed" /\ to \in {"Boxed", "RefMut", "Ref"}
       \/ a.kind = "RefMut" /\ to \in {"Boxed", "RefMut", "Ref"}
    /\ SetMem(from_ptr(into_ptr(Mem, a.chunk), a.chunk))
    /\ held' = (held (-) One(a)) (+) One([a EXCEPT !.kind = to])
    /\ last' = [NoOp EXCEPT !.op = "convert"]
    /\ UNCHANGED <<raw, live>>

\* Boxed::leak, RefMut::leak, Ref::leak: the handle is forgotten, nothing is
\* decremented.
Leak(a) ==
    /\ panic = "none"
    /\ a.handles >= 1
    /\ held' = (held (-) One(a)) (+)
               One([a EXCEPT !.handles = @ - 1, !.leaked = @ + 1,
                             !.kind = IF a.handles = 1 THEN "Leaked" ELSE @])
    /\ SetMem(into_ptr(Mem, a.chunk))
    /\ last' = [NoOp EXCEPT !.op = "leak"]
    /\ UNCHANGED <<raw, live>>

\* Drop for Boxed / RefMut / Ref.
Drop(a) ==
    /\ panic = "none"
    /\ a.handles >= 1
    /\ LET dropped(r) ==
               /\ SetMem(r.m)
               /\ live' = Counted(r.m, a.chunk, -1)
               /\ last' = [NoOp EXCEPT !.op = "drop", !.chunk = a.chunk,
                                       !.old = r.old, !.steps = r.steps]
       IN dropped(IF a.kind = "Boxed" THEN Boxed_drop(Mem, a.chunk)
                  ELSE IF a.kind = "RefMut" THEN RefMut_drop(Mem, a.chunk)
                  ELSE Ref_drop(Mem, a.chunk))
    /\ held' = IF a.handles = 1 /\ a.leaked = 0
               THEN held (-) One(a)
               ELSE (held (-) One(a)) (+)
                    One([a EXCEPT !.handles = @ - 1,
                                  !.kind = IF a.handles = 1 THEN "Leaked" ELSE @])
    /\ UNCHANGED raw

\* The operations, with at most `budget` raw pointers and handles at a time.
Step(budget) ==
    \/ \E n \in 1..MaxReserve : Reserve(n)
    \/ \E layout \in Layouts : Allocate(budget, layout)
    \/ New
    \/ \E a \in Allocs : Clone(budget, a)
    \/ \E a \in Allocs : \E to \in Kinds : Convert(a, to)
    \/ \E a \in Allocs : Leak(a)
    \/ \E a \in Allocs : Drop(a)

Next == Step(MaxHandles)

Spec == Init /\ [][Next]_vars

\* The same operations with room for one more raw pointer or handle: a slice
\* being filled, a handle made by its closure and the allocation that
\* displaces their chunk.
NextWide == Step(MaxHandles + 1)

SpecWide == Init /\ [][NextWide]_vars

\* Chunk::free called on chunk c by code of the crate, outside of a drop:
\* `last` keeps the Result (its kind in steps, the n of RefCount(n) in old).
Free(c) ==
    /\ panic = "none"
    /\ LET freed(r) ==
               /\ SetMem(r.m)
               /\ last' = [NoOp EXCEPT !.op = "free", !.chunk = c,
                                       !.old = r.res.n,
                                       !.steps = <<r.res.kind>>]
       IN freed(Chunk_free(Mem, c))
    /\ UNCHANGED <<raw, held, live>>

\* FreeList::pop called by code of the crate, outside of an allocation.
Pop ==
    /\ panic = "none"
    /\ LET popped(r) ==
               /\ SetMem(r.m)
               /\ last' = [NoOp EXCEPT !.op = "pop", !.chunk = r.popped]
       IN popped(FreeList_pop(Mem))
    /\ UNCHANGED <<raw, held, live>>

\* The list and its free list used directly: reserve, allocate, Boxed handles
\* made, leaked and dropped, and direct calls of Chunk::free and FreeList::pop.
NextManual ==
    \/ \E n \in 1..MaxReserve : Reserve(n)
    \/ \E layout \in Layouts : Allocate(MaxHandles, layout)
    \/ New
    \/ \E a \in Allocs : Leak(a)
    \/ \E a \in Allocs : Drop(a)
    \/ \E c \in DOMAIN footers : Free(c)
    \/ Pop

SpecManual == Init /\ [][NextManual]_vars

\* ------------------------------------------------------------- teardown

\* alloc::dealloc of the host allocation of chunk c: its footer is gone.
dealloc(m, c) ==
    [m EXCEPT !.footers = [i \in (DOMAIN m.footers) \ {c} |-> m.footers[i]]]

\* Chunk::drop that releases the chunk it is called on and does not follow
\* `next`.
Chunk_drop_head_only(m, c) ==
    IF c = None THEN [m |-> m, released |-> <<>>]
    ELSE IF refs(m.footers[c]) # 0
    THEN [m |-> Panic(m, "attempting to deallocate a chunk that still has references"),
          released |-> <<>>]
    ELSE [m |-> dealloc(m, c), released |-> <<c>>]

\* Chunk::drop without the assertion on the reference count.
RECURSIVE Chunk_drop_unchecked(_, _)
Chunk_drop_unchecked(m, c) ==
    IF c = None THEN [m |-> m, released |-> <<>>]
    ELSE LET rest(r) == [r EXCEPT !.released = <<c>> \o @]
         IN rest(Chunk_drop_unchecked(dealloc(m, c), m.footers[c].next))

\* Chunk::drop(self), called on c: [m, released].  The loop takes the chunk,
\* asserts that its reference count is 0, reads `next`, deallocates the chunk
\* and goes on with `next`.  A footer read after its chunk was deallocated is
\* reported as a panic of its own.
RECURSIVE Chunk_drop(_, _)
Chunk_drop(m, c) ==
    IF c = None THEN [m |-> m, released |-> <<>>]
    ELSE IF c \notin DOMAIN m.footers
    THEN [m |-> Panic(m, "footer read after dealloc"), released |-> <<>>]
    ELSE IF refs(m.footers[c]) # 0
    THEN [m |-> Panic(m, "attempting to deallocate a chunk that still has references"),
          released |-> <<>>]
    ELSE LET rest(r) == [r EXCEPT !.released = <<c>> \o @]
         IN rest(Chunk_drop(dealloc(m, c), m.footers[c].next))

\* impl Drop for ChunkList: [m, released, steps].  The free-list cell is
\* released first, then head is taken and Chunk::drop walks from it.
ChunkList_drop(m) ==
    LET walked(r) ==
            [m |-> r.m, released |-> r.released,
             steps |-> <<"free_list.drop">>
                       \o [i \in 1..Len(r.released) |-> "dealloc"]]
    IN walked(Chunk_drop([m EXCEPT !.free_list = None, !.head = None], m.head))

\* The list is dropped (the arena is dropped).  Handles borrow the arena, so
\* none is live and no allocation is in progress; leaked ones may exist.
DropList ==
    /\ panic = "none"
    /\ raw = <<>>
    /\ \A a \in Allocs : a.handles = 0
    /\ LET dropped(r) ==
               /\ SetMem(r.m)
               /\ last' = [NoOp EXCEPT !.op = "drop_list",
                                       !.arg = Len(r.released),
                                       !.steps = r.steps]
       IN dropped(ChunkList_drop(Mem))
    /\ UNCHANGED <<raw, held, live>>

\* The life of a list up to its drop: nothing is done with a dropped list.
NextTeardown ==
    /\ last.op # "drop_list"
    /\ \/ \E n \in 1..MaxReserve : Reserve(n)
       \/ \E layout \in Layouts : Allocate(MaxHandles, layout)
       \/ New
       \/ \E a \in Allocs : Leak(a)
       \/ \E a \in Allocs : Drop(a)
       \/ DropList

SpecTeardown == Init /\ [][NextTeardown]_vars

\* ---------------------------------------------------------------- Arena

\* usize::next_power_of_two: the smallest power of two >= n (1 for n = 0).
RECURSIVE pow2_from(_, _)
pow2_from(p, n) == IF p >= n THEN p ELSE pow2_from(2 * p, n)

next_power_of_two(n) == pow2_from(1, n)

\* usize::trailing_zeros of n > 0.
RECURSIVE trailing_zeros(_)
trailing_zeros(n) == IF n % 2 = 1 THEN 0 ELSE 1 + trailing_zeros(n \div 2)

saturating_sub(a, b) == IF a >= b THEN a - b ELSE 0

\* lib.rs: MIN_BLOCK_POW
MIN_BLOCK_POW == trailing_zeros(MIN_BLOCK_SIZE)

\* lib.rs: size_to_index
size_to_index(sz) ==
    saturating_sub(trailing_zeros(next_power_of_two(sz)), MIN_BLOCK_POW)

\* ChunkList::with_capacity
with_capacity(sz, cap) == reserve(empty(sz), cap)

\* ChunkList::new: a list with 4 chunks.
ChunkList_new(sz) == with_capacity(sz, 4)

\* Arena::list_for_size, Arena::reserve_next: the list that a request of this
\* size is routed to, as reserve_next creates it.
list_for_size(sz) == ChunkList_new(index_to_chunk_size(size_to_index(sz)))

\* The layouts passed to Arena::alloc_layout (any valid Layout: the alignment
\* is a power of two, the size is any number) and those of Arena::alloc::<T>.
ArenaLayouts ==
    { [size |-> 100, align |-> 4],
      [size |-> 256, align |-> 256],
      [size |-> 8,   align |-> 512],
      [size |-> 300, align |-> 8] }

\* The arena creates a list at the first request routed to it; the list is
\* followed from there.
InitArena ==
    \E layout \in ArenaLayouts :
        LET m == list_for_size(layout.size)
        IN /\ size = m.size
           /\ footers = m.footers
           /\ free_list = m.free_list
           /\ len = m.len
           /\ head = m.head
           /\ current = m.current
           /\ panic = m.panic
           /\ raw = <<>>
           /\ held = EmptyBag
           /\ live = [i \in DOMAIN m.footers |-> 0]
           /\ last = NoOp

\* Arena::allocate(layout) for a layout that list_for_size routes to the list
\* followed: ChunkList::allocate on it.  The list provisions no chunk beyond
\* those it was created with while at most MaxHandles pointers exist.
Arena_allocate(layout) ==
    /\ panic = "none"
    /\ Total < MaxHandles
    /\ index_to_chunk_size(size_to_index(layout.size)) = size
    /\ LET allocated(r) ==
               /\ SetMem(r.m)
               /\ live' = Counted(r.m, None, 0)
               /\ raw' = IF Ok(r.m)
                         THEN Append(raw, [chunk |-> r.chunk, ptr |-> r.ptr,
                                           size |-> layout.size])
                         ELSE raw
               /\ last' = [NoOp EXCEPT !.op = "allocate", !.chunk = r.chunk,
                                       !.arg = layout.align]
       IN allocated(ChunkList_allocate(Mem, layout))
    /\ UNCHANGED held

NextArena ==
    \/ \E layout \in ArenaLayouts : Arena_allocate(layout)
    \/ New
    \/ \E a \in Allocs : Drop(a)

SpecArena == InitArena /\ [][NextArena]_vars

\* -------------------------------------------------------------- packing

\* The raw pointers and handles of a run of allocations that keeps every
\* handle live: enough for the eight 32-byte allocations that fill a chunk of
\* MIN_BLOCK_SIZE bytes and the ninth that displaces it.
PackHandles == 4 * MaxHandles + 1

\* Layouts of a size k that divides the chunk size, with an alignment <= k.
PackLayouts ==
    { [size |-> 32,  align |-> 32], [size |-> 32,  align |-> 8],
      [size |-> 64,  align |-> 64], [size |-> 64,  align |-> 1],
      [size |-> 128, align |-> 128], [size |-> 128, align |-> 16],
      [size |-> 256, align |-> 256], [size |-> 256, align |-> 4] }

\* The number of allocations made so far, wrapped by a handle or not.
Allocations == Len(raw) + BagCardinality(held)

\* ChunkList::allocate in a run of allocations of one size.
PackAllocate(layout) ==
    /\ \A i \in DOMAIN raw : raw[i].size = layout.size
    /\ \A a \in Allocs : a.size = layout.size
    /\ Allocate(PackHandles, layout)

\* A run of allocations of one size whose handles are all kept.
NextPack ==
    \/ \E n \in 1..MaxReserve : Reserve(n)
    \/ \E layout \in PackLayouts : PackAllocate(layout)
    \/ New

SpecPack == Init /\ [][NextPack]_vars

\* ------------------------------------------------------------- properties

Chunks == DOMAIN footers

\* The bump pointer of f is at the end of the data region: nothing allocated.
Unused(f) == f.bump = f.start + f.size

\* The handles, live or leaked, over allocations of chunk c.
HandlesIn(c) == Handles({a \in Allocs : a.chunk = c})

\* The chunks reached from the top of the free list through next_free, in
\* order, following at most n links.
RECURSIVE Chain(_, _)
Chain(c, n) ==
    IF c = None \/ n = 0 THEN <<>>
    ELSE <<c>> \o Chain(footers[c].next_free, n - 1)

\* C1: a chunk whose FREE bit is set does not have its CURRENT bit set, has a
\* reference count of 0 and has its bump pointer at start + size.
FreeImpliesUnused ==
    \A c \in Chunks :
        is_free(footers[c]) =>
            /\ ~is_current(footers[c])
            /\ refs(footers[c]) = 0
            /\ Unused(footers[c])

\* C2: at most one chunk of the list has its CURRENT bit set, and a chunk has
\* it set exactly when it is the chunk in the list's `current` field.
OneCurrent ==
    /\ Cardinality({c \in Chunks : is_current(footers[c])}) <= 1
    /\ \A c \in Chunks : is_current(footers[c]) <=> current = c
    /\ current # None => current \in Chunks

\* C2: an allocation has displaced a chunk that still holds a live handle and
\* made another chunk the current one.
OneCurrentWitness ==
    /\ last.op = "allocate"
    /\ current = last.chunk
    /\ is_current(footers[current])
    /\ \E c \in Chunks : c # current /\ refs(footers[c]) > 0 /\ ~is_free(footers[c])

\* C3: the reference count of a chunk is the number of handles constructed
\* over it (by new or by clone) minus the number dropped, which is the number
\* of its handles that are live or leaked; conversions count as neither.
RefcountIsHandles ==
    \A c \in Chunks :
        /\ refs(footers[c]) = live[c]
        /\ refs(footers[c]) = HandlesIn(c)

\* C3: an allocation was converted to Ref and cloned, and one of its two
\* handles has just been leaked: one live, one leaked, a count of 2.
RefcountIsHandlesWitness ==
    /\ last.op = "leak"
    /\ \E a \in Allocs :
        /\ a.kind = "Ref" /\ a.handles = 1 /\ a.leaked = 1
        /\ refs(footers[a.chunk]) = 2

\* C4: after every step (allocate, handle construction, handle drop) a chunk
\* whose reference count is 0 has its bump pointer at start + size.
NoRefsImpliesUnused ==
    \A c \in Chunks : refs(footers[c]) = 0 => Unused(footers[c])

\* C5: two allocations of the same chunk whose handles are both live occupy
\* disjoint address ranges.
LiveDisjoint ==
    \A a, b \in Allocs :
        (/\ a.chunk = b.chunk
         /\ a.handles >= 1 /\ b.handles >= 1
         /\ (a # b \/ CopiesIn(a, held) > 1))
        => (a.ptr + a.size <= b.ptr \/ b.ptr + b.size <= a.ptr)

\* C6: the pointer p that ChunkList::allocate returns for a layout is a
\* multiple of the layout's alignment, lies in [start, start + size - the
\* layout's size] of the current chunk, and is that chunk's bump pointer right
\* after the call; the call does not fail to place the layout.
AllocateAlignedInside ==
    /\ panic # "cannot allocate!"
    /\ (last.op = "allocate" /\ panic = "none") =>
          /\ raw # <<>>
          /\ LET p == raw[Len(raw)]
                 f == footers[p.chunk]
             IN /\ p.chunk = last.chunk /\ p.chunk = current
                /\ p.ptr % last.arg = 0
                /\ f.start <= p.ptr
                /\ p.ptr <= f.start + f.size - p.size
                /\ f.bump = p.ptr

\* C6: the second allocation of 100 bytes aligned to 8 in a chunk of 256:
\* bump - 100 is not a multiple of 8 either time and is rounded down.
AllocateAlignedInsideWitness ==
    /\ last.op = "allocate" /\ last.arg = 8
    /\ raw # <<>>
    /\ raw[Len(raw)].ptr = footers[raw[Len(raw)].chunk].start + 48

\* C7: a chunk is on the free list (reached from its top through next_free)
\* exactly when its FREE bit is set; the list has no cycle and no chunk twice;
\* a chunk whose next_free is set has its FREE bit set.
FreeListIsFreeChunks ==
    LET chain == Chain(free_list, len + 1)
        on == {chain[i] : i \in DOMAIN chain}
    IN /\ Len(chain) <= len
       /\ Cardinality(on) = Len(chain)
       /\ \A c \in Chunks : is_free(footers[c]) <=> c \in on
       /\ \A c \in Chunks : footers[c].next_free # None => is_free(footers[c])

\* C7: the drop of the last handle of a displaced chunk has pushed the chunk
\* on the free list, after it had been popped from it.
FreeListIsFreeChunksWitness ==
    /\ last.op = "drop" /\ last.old = 1
    /\ free_list = last.chunk
    /\ is_free(footers[free_list])
    /\ current # None /\ current # free_list

\* C8: every chunk is FREE, CURRENT or IN-USE (neither bit set and a reference
\* count above 0), never two of them; no chunk has both bits clear and a
\* reference count of 0.
ThreeStates ==
    \A c \in Chunks :
        /\ ~(is_free(footers[c]) /\ is_current(footers[c]))
        /\ is_free(footers[c]) \/ is_current(footers[c]) \/ refs(footers[c]) > 0

\* C9: the drop that takes the reference count of a chunk that is not current
\* from 1 to 0 does not panic, and leaves the chunk on top of the free list
\* with its FREE bit set and its bump pointer reset.
LastDropFrees ==
    (/\ last.op = "drop" /\ last.old = 1
     /\ ~is_current(footers[last.chunk]))
    => /\ panic = "none"
       /\ free_list = last.chunk
       /\ is_free(footers[last.chunk])
       /\ Unused(footers[last.chunk])

\* C10: the drop that takes the reference count of the current chunk from 1
\* to 0 keeps it current, does not push it (the top of the free list stays),
\* resets its bump pointer, and the next allocation of a layout that fits a
\* chunk is served from it.
LastDropKeepsCurrent ==
    [][ \A a \in Allocs :
          (/\ last'.op = "drop"
           /\ refs(footers[a.chunk]) = 1
           /\ is_current(footers[a.chunk])
           /\ Drop(a))
          => /\ panic' = "none"
             /\ current' = a.chunk /\ current' = current
             /\ is_current(footers'[a.chunk])
             /\ ~is_free(footers'[a.chunk])
             /\ free_list' = free_list
             /\ footers'[a.chunk].next_free = None
             /\ Unused(footers'[a.chunk])
             /\ \A layout \in Layouts :
                   ChunkList_allocate(Mem', layout).chunk = a.chunk ]_vars

\* C10: the last handle of the current chunk has just been dropped.
LastDropKeepsCurrentWitness ==
    /\ last.op = "drop" /\ last.old = 1
    /\ current = last.chunk
    /\ refs(footers[current]) = 0
    /\ Unused(footers[current])

\* C11: the drop of a Boxed runs the destructor of the value once, before the
\* reference count is decremented (and so before the bump reset and the push
\* that the decrement may bring); the drop of a RefMut or of a Ref decrements
\* and runs no destructor.
DestructorBeforeDecrement ==
    [][ \A a \in Allocs :
          (last'.op = "drop" /\ a.handles >= 1 /\ Drop(a))
          => /\ last'.steps = IF a.kind = "Boxed"
                              THEN <<"drop_in_place", "remove_ref">>
                              ELSE <<"remove_ref">>
             /\ last'.old = refs(footers[a.chunk])
             /\ refs(footers'[a.chunk]) = refs(footers[a.chunk]) - 1 ]_vars

\* C11: the drop of the last handle of a displaced chunk, a Boxed, has run
\* the destructor and then pushed the chunk.
DestructorBeforeDecrementWitness ==
    /\ last.op = "drop" /\ last.old = 1
    /\ last.steps = <<"drop_in_place", "remove_ref">>
    /\ is_free(footers[last.chunk])

\* The free list, from its top.
FreeChain == Chain(free_list, len + 1)

\* C12: `len` never decreases and is the number of chunks obtained from the
\* host allocator; reserve(n) raises it by n and leaves the n new chunks on
\* top of the free list, FREE, with a reference count of 0.
LenCountsChunks ==
    [][ /\ len' >= len
        /\ len' = Cardinality(DOMAIN footers')
        /\ DOMAIN footers' = 0 .. (len' - 1)
        /\ \A n \in 1..MaxReserve :
              (last'.op = "reserve" /\ Reserve(n)) =>
                 /\ len' = len + n
                 /\ \A i \in 1..n :
                       /\ FreeChain'[i] = len + n - i
                       /\ is_free(footers'[len + n - i])
                       /\ refs(footers'[len + n - i]) = 0
                       /\ Unused(footers'[len + n - i])
                 /\ SubSeq(FreeChain', n + 1, Len(FreeChain')) = FreeChain
                 /\ \A c \in Chunks : footers'[c] = footers[c] ]_vars

\* C12: reserve(2) on a list that holds no chunk yet.
LenCountsChunksWitness ==
    /\ last.op = "reserve" /\ last.arg = 2
    /\ len = 2
    /\ free_list = 1 /\ footers[1].next_free = 0

PopsLastPushed ==
    [][ /\ \A a \in Allocs :
              (last'.op = "drop" /\ a.handles >= 1 /\ Drop(a)
                 /\ ~is_free(footers[a.chunk]) /\ is_free(footers'[a.chunk]))
              => FreeChain' = <<a.chunk>> \o FreeChain
        /\ \A layout \in Layouts :
              (/\ last'.op = "allocate"
               /\ Allocate(MaxHandles + 1, layout)
               /\ current = None \/ ~can_fit(footers[current], layout)
               /\ free_list # None)
              => /\ current' = free_list
                 /\ FreeChain = <<current'>> \o FreeChain'
                 /\ ~is_free(footers'[current'])
                 /\ footers'[current'].next_free = None
                 /\ refs(footers'[current']) = 0 ]_vars

\* C15: once a handle into a chunk has been leaked, and from the leak on, the
\* reference count of the chunk stays at 1 or more, the chunk does not have its
\* FREE bit set and is not on the free list, and its bump pointer is never
\* reset (it only moves down); the leak itself decrements nothing.
LeakPinsChunk ==
    [][ /\ \A a \in Allocs :
              (last'.op = "leak" /\ a.handles >= 1 /\ Leak(a))
              => /\ refs(footers'[a.chunk]) = refs(footers[a.chunk])
                 /\ refs(footers'[a.chunk]) >= 1
                 /\ ~is_free(footers'[a.chunk])
        /\ \A a \in Allocs :
              a.leaked >= 1
              => /\ refs(footers'[a.chunk]) >= 1
                 /\ ~is_free(footers'[a.chunk])
                 /\ \A i \in DOMAIN FreeChain' : FreeChain'[i] # a.chunk
                 /\ footers'[a.chunk].bump <= footers[a.chunk].bump
                 /\ \E b \in BagToSet(held') :
                       /\ b.chunk = a.chunk /\ b.ptr = a.ptr
                       /\ b.leaked >= a.leaked ]_vars

\* C16: a conversion of a handle into another kind of handle, or by init_with
\* or assume_init into the same kind, changes nothing of the list and its
\* chunks: reference counts, CURRENT and FREE bits, bump pointers and the free
\* list stay as they are; so does any chain of conversions.
ConversionKeepsChunk ==
    [][ last'.op = "convert"
          => /\ UNCHANGED <<size, footers, free_list, len, head, current, panic>>
             /\ UNCHANGED <<live, raw>>
             /\ \A c \in Chunks : HandlesIn(c)' = HandlesIn(c) ]_vars

\* C16: a handle into a displaced chunk has just been converted into a Ref;
\* it is the only handle of its chunk.
ConversionKeepsChunkWitness ==
    /\ last.op = "convert"
    /\ \E a \in Allocs :
          /\ a.kind = "Ref" /\ a.handles = 1
          /\ refs(footers[a.chunk]) = 1
          /\ ~is_current(footers[a.chunk]) /\ ~is_free(footers[a.chunk])

\* The handles over allocations of chunk c that are live (not leaked).
RECURSIVE Live(_)
Live(S) ==
    IF S = {} THEN 0
    ELSE LET r == CHOOSE x \in S : TRUE
         IN CopiesIn(r, held) * r.handles + Live(S \ {r})

LiveIn(c) == Live({a \in Allocs : a.chunk = c})

PushErrorKeepsState ==
    \A c \in Chunks :
        LET same(r) == r.res.kind # "Ok" => r.m = Mem
        IN same(Chunk_free(Mem, c))

\* C18: free has just been refused for the current chunk, which holds a
\* handle and has allocated memory, with another chunk on the free list.
PushErrorKeepsStateWitness ==
    /\ last.op = "free" /\ last.steps = <<"IsCurrent">>
    /\ free_list # None
    /\ refs(footers[last.chunk]) > 0
    /\ ~Unused(footers[last.chunk])

\* C19, as stated: Chunk::free on a chunk with n > 0 live handles returns
\* RefCount(n).
FreeReportsLiveHandles ==
    \A c \in Chunks :
        LET reports(r) ==
                LiveIn(c) > 0 => r.res = [kind |-> "RefCount", n |-> LiveIn(c)]
        IN reports(Chunk_free(Mem, c))

\* C19, amended: Chunk::free on a chunk that is neither FREE nor CURRENT and
\* has handles returns RefCount(n), n being the number of handles into the
\* chunk that were constructed and not dropped, leaked ones included; on the
\* current chunk it returns IsCurrent whatever its handles.
FreeReportsHandles ==
    \A c \in Chunks :
        LET f == footers[c]
            reports(r) ==
                /\ (~is_free(f) /\ ~is_current(f) /\ HandlesIn(c) > 0)
                      => r.res = [kind |-> "RefCount", n |-> HandlesIn(c)]
                /\ (~is_free(f) /\ is_current(f)) => r.res.kind = "IsCurrent"
        IN reports(Chunk_free(Mem, c))

\* C19: free has just been refused with RefCount(1) for a displaced chunk
\* whose one handle was leaked.
FreeReportsHandlesWitness ==
    /\ last.op = "free" /\ last.steps = <<"RefCount">> /\ last.old = 1
    /\ LiveIn(last.chunk) = 0 /\ HandlesIn(last.chunk) = 1
    /\ ~is_current(footers[last.chunk]) /\ ~is_free(footers[last.chunk])

\* C20: with a chunk on the free list, pop and then free of the popped chunk,
\* nothing in between, give back the list as it was: same top, same next_free
\* of every chunk, same FREE bits.
PopFreeRestores ==
    free_list # None =>
        LET again(r) == Chunk_free(r.m, r.popped)
            same(r) ==
                /\ r.m.free_list = free_list
                /\ \A c \in Chunks :
                      /\ r.m.footers[c].next_free = footers[c].next_free
                      /\ is_free(r.m.footers[c]) = is_free(footers[c])
        IN same(again(FreeList_pop(Mem)))

\* The chunks in the order in which Chunk::drop visits them: from head along
\* `next`, following at most n links.
RECURSIVE NextChain(_, _)
NextChain(c, n) ==
    IF c = None \/ n = 0 THEN <<>>
    ELSE <<c>> \o NextChain(footers[c].next, n - 1)

Range(q) == {q[i] : i \in DOMAIN q}

\* C21: when every handle into the list has been dropped and none was leaked,
\* dropping the list releases the free-list cell and then every chunk ever
\* allocated, each exactly once (len releases, along `next` from head), and
\* does not panic.
TeardownReleasesAll ==
    (panic = "none" /\ last.op # "drop_list" /\ raw = <<>> /\ held = EmptyBag)
    => LET all(r) ==
               /\ r.m.panic = "none"
               /\ Len(r.released) = len
               /\ Range(r.released) = 0..(len - 1)
               /\ r.released = NextChain(head, len + 1)
               /\ DOMAIN r.m.footers = {}
               /\ r.steps[1] = "free_list.drop"
               /\ Len(r.steps) = len + 1
               /\ r.m.head = None
       IN all(ChunkList_drop(Mem))

\* C21: a list of two chunks was dropped after it had served an allocation
\* (it has a current chunk) whose handle was dropped: both chunks were
\* released and nothing panicked.
TeardownReleasesAllWitness ==
    /\ last.op = "drop_list"
    /\ panic = "none"
    /\ current # None
    /\ len = 2 /\ last.arg = 2
    /\ last.steps = <<"free_list.drop", "dealloc", "dealloc">>
    /\ DOMAIN footers = {}
    /\ held = EmptyBag

\* The position in the sequence q of its first chunk with a reference count.
FirstCounted(q) ==
    CHOOSE i \in 1..Len(q) :
        /\ refs(footers[q[i]]) # 0
        /\ \A j \in 1..(i - 1) : refs(footers[q[j]]) = 0

\* C22: a chunk over which a handle was leaked keeps a reference count > 0,
\* and dropping the list while some chunk has a reference count > 0 panics at
\* the first such chunk of the `next` chain: the chunks before it are
\* released, that chunk and those after it are not.
TeardownAbortsOnReferences ==
    /\ \A a \in Allocs :
          (a.leaked > 0 /\ a.chunk \in Chunks) => refs(footers[a.chunk]) > 0
    /\ (/\ panic = "none" /\ last.op # "drop_list"
        /\ raw = <<>> /\ \A a \in Allocs : a.handles = 0
        /\ \E c \in Chunks : refs(footers[c]) > 0)
       => LET chain == NextChain(head, len + 1)
              aborted(r) ==
                  /\ r.m.panic =
                        "attempting to deallocate a chunk that still has references"
                  /\ r.released = SubSeq(chain, 1, FirstCounted(chain) - 1)
                  /\ DOMAIN r.m.footers = Chunks \ Range(r.released)
                  /\ \A c \in DOMAIN r.m.footers : r.m.footers[c] = footers[c]
          IN aborted(ChunkList_drop(Mem))

\* C22: a list was dropped after a leak in its older chunk: the newer chunk
\* was released, the walk stopped at the older one with a panic.
TeardownAbortsOnReferencesWitness ==
    /\ last.op = "drop_list"
    /\ panic = "attempting to deallocate a chunk that still has references"
    /\ len = 2 /\ last.arg = 1
    /\ DOMAIN footers = {0}
    /\ \E a \in Allocs : a.leaked > 0 /\ a.chunk = 0

\* C23: every layout passed to Arena::allocate goes to a list whose chunk
\* size is at least the layout's size and alignment, so a fresh chunk fits it
\* and Chunk::alloc_layout never panics with "cannot allocate!".
NeverCannotAllocate == panic # "cannot allocate!"

\* C24: when ChunkList::allocate finds that the current chunk cannot fit the
\* layout, the old current chunk loses its CURRENT bit, is not pushed onto the
\* free list, keeps its reference count and bump pointer and is in use (it
\* has references); the replacement, the top of the free list or a new chunk,
\* becomes the only CURRENT chunk and serves the allocation.
DisplacedStaysInUse ==
    [][ \A layout \in Layouts :
          (/\ last'.op = "allocate"
           /\ current # None
           /\ ~can_fit(footers[current], layout)
           /\ Allocate(MaxHandles, layout))
          => /\ ~is_current(footers'[current])
             /\ ~is_free(footers'[current])
             /\ current \notin Range(FreeChain')
             /\ refs(footers'[current]) = refs(footers[current])
             /\ footers'[current].bump = footers[current].bump
             /\ refs(footers'[current]) > 0
             /\ current' # current
             /\ current' = IF free_list # None THEN free_list ELSE len
             /\ {c \in DOMAIN footers' : is_current(footers'[c])} = {current'}
             /\ last'.chunk = current'
             /\ raw'[Len(raw')].chunk = current'
             /\ raw'[Len(raw')].ptr = footers'[current'].bump
    ]_vars

\* C25: in a run of allocations of size k (k divides the chunk size S,
\* alignment <= k) whose handles are all kept, the allocation after n others
\* is at start + S - ((n mod S/k) + 1) * k of its chunk; it is served from the
\* chunk of the allocation before it unless n is a multiple of S/k, and from
\* another chunk when it is: S/k allocations per chunk, from start + S - k
\* down to start, and the next one displaces the chunk.
PacksWithoutWaste ==
    [][ \A layout \in PackLayouts :
          (last'.op = "allocate" /\ PackAllocate(layout))
          => LET k == layout.size
                 per == size \div k
                 n == Allocations
                 p == raw'[Len(raw')]
                 f == footers'[p.chunk]
             IN /\ panic' = "none"
                /\ Len(raw') = Len(raw) + 1
                /\ p.ptr = f.start + size - ((n % per) + 1) * k
                /\ (n % per # 0) => p.chunk = current
                /\ (n % per = 0) => p.chunk # current
                /\ p.chunk = current'
    ]_vars

\* C25: eight 32-byte allocations fill chunk A of 256 bytes, from start + 224
\* down to start, and the ninth has just been served from another chunk, at
\* its start + 224.
PacksWithoutWasteWitness ==
    /\ last.op = "allocate"
    /\ Allocations = 9
    /\ \E A \in Chunks :
          /\ A # current
          /\ footers[A].bump = footers[A].start
          /\ refs(footers[A]) = 8
          /\ {a.ptr : a \in {b \in Allocs : b.chunk = A}}
                = {footers[A].start + 32 * i : i \in 0..7}
          /\ raw = <<[chunk |-> current, size |-> 32,
                      ptr |-> footers[current].start + 224]>>

\* C26: while a pointer returned by ChunkList::allocate waits for its handle
\* (the closure of alloc_slice_fill_with is running and uses the arena), its
\* chunk is not pushed onto the free list and its bump pointer is not reset
\* (it stays at or below the pointer), and no other allocation, made by the
\* closure or still waiting, overlaps its bytes.
SliceChunkKept ==
    \A i \in DOMAIN raw :
        LET p == raw[i]
            f == footers[p.chunk]
        IN /\ ~is_free(f)
           /\ f.bump <= p.ptr
           /\ \A j \in DOMAIN raw \ {i} :
                 raw[j].chunk = p.chunk
                 => (p.ptr + p.size <= raw[j].ptr
                        \/ raw[j].ptr + raw[j].size <= p.ptr)
           /\ \A a \in Allocs :
                 a.chunk = p.chunk
                 => (p.ptr + p.size <= a.ptr \/ a.ptr + a.size <= p.ptr)

====
